---- MODULE Spec2Model ----
(***************************************************************************)
(* Review synthesis pipeline of synthetic_reviews.py: batch packer,        *)
(* content generator (external service with local fallback), streaming     *)
(* writer and the windowed orchestrator run(), plus the visit date         *)
(* generator gen_user_dates.                                               *)
(*                                                                         *)
(* Ratings are integers in tenths (42 is 4.2).  The module-global random   *)
(* source seeded at import is a counter of consumed draws (rng); the value *)
(* of draw k is RandomStream(k).                                           *)
(***************************************************************************)
EXTENDS Integers, Sequences, FiniteSets, TLC

VARIABLES
    target,              \* TARGET_SLOTS_PER_PROMPT
    hard_max,            \* MAX_SLOTS_PER_PROMPT
    chunk_size,          \* ReviewStreamer.chunk_size (CHUNK_SIZE)
    concurrent_prompts,  \* CONCURRENT_PROMPTS
    use_openai,          \* ReviewLLM.use_openai
    user_plan,           \* run(): user id -> sequence of <<restaurant id, visit date>>
    all_slots,           \* run(): the flattened slot sequence
    batches,             \* run(): pack_slots_by_target(all_slots, ...)
    pc,                  \* position of run() / of the caller of the streamer
    start,               \* run(): loop variable of the window loop
    idx,                 \* run(): loop variable of the hand-off loop
    tasks,               \* per batch: state of its run_prompt task
    completion,          \* the window's batch indices in the order their tasks completed
    rng,                 \* number of draws consumed from the global random source
    buffer,              \* ReviewStreamer.buffer
    next_review_id,      \* ReviewStreamer.next_review_id
    review_files,        \* data_dir: review_<key>.json files, in creation order
    photo_files,         \* data_dir: review_photo_<key>.json files
    write_errors,        \* number of file writes that raised
    fed,                 \* streamer caller: number of rows handed to the streamer so far
    date_start,          \* DATE_START as <<year, month, day>>
    total_days,          \* gen_user_dates: total_days
    n_dates,             \* gen_user_dates: n
    used_days,           \* gen_user_dates: used_days
    attempts,            \* gen_user_dates: attempts
    dates,               \* gen_user_dates: the returned list
    nowts,               \* what datetime.now().strftime(...) returns at this moment
    user_ids,            \* run(): the user ids of the catalog, in catalog order
    restaurant_ids,      \* run(): the restaurant ids of the catalog
    VIP_COUNT,           \* VIP_COUNT
    LOYAL_COUNT,         \* LOYAL_COUNT
    REGULAR_COUNT,       \* REGULAR_COUNT
    reviews_range,       \* <<VIP_REVIEWS_RANGE, LOYAL_REVIEWS_RANGE, REGULAR_REVIEWS_RANGE>>
    cohorts,             \* run(): <<vip_users, loyal_users, regular_users>> of pick_cohorts
    assigned,            \* run(): number of assign_for calls made
    plan_n               \* assign_for: user id -> the n drawn for the user

vars == <<target, hard_max, chunk_size, concurrent_prompts, use_openai, user_plan,
          all_slots, batches, pc, start, idx, tasks, completion, rng, buffer,
          next_review_id, review_files, photo_files, write_errors, fed, date_start,
          total_days,
          n_dates, used_days, attempts, dates, nowts, user_ids, restaurant_ids, VIP_COUNT,
          LOYAL_COUNT, REGULAR_COUNT, reviews_range, cohorts, assigned, plan_n>>

configVars == <<target, hard_max, chunk_size, concurrent_prompts, use_openai>>
planVars == <<user_plan, all_slots, batches>>
runVars == <<start, idx, tasks, completion>>
streamerVars == <<buffer, next_review_id, review_files, photo_files, write_errors>>
datesVars == <<date_start, total_days, n_dates, used_days, attempts, dates>>
clockVars == <<nowts>>
catalogVars == <<user_ids, restaurant_ids, VIP_COUNT, LOYAL_COUNT, REGULAR_COUNT, reviews_range>>
cohortVars == <<cohorts, assigned, plan_n>>

(***************************************************************************)
(* Bounds of the model.                                                    *)
(***************************************************************************)
MaxVisits == 2      \* visits in one user's plan
MaxSlots == 3       \* slots of one run
MaxTarget == 2      \* batch target and hard maximum range over 1..MaxTarget
MaxChunk == 2       \* chunk sizes range over 1..MaxChunk
MaxWindow == 2      \* window sizes range over 1..MaxWindow
MaxRows == 7        \* rows fed to a streamer on its own
MaxAdd == 3         \* rows of one add_rows_and_maybe_flush call on a streamer on its own
MaxWriteErrors == 2 \* failed writes a caller of a streamer on its own lives through
MaxN == 3           \* gen_user_dates: n ranges over 0..MaxN
MaxDays == 2        \* gen_user_dates: the range has 1..MaxDays days
MaxSpareDays == 1   \* gen_user_dates: days a feasible range has beyond 2n
MaxPackLen == 45    \* pack_slots_by_target on its own: slot sequences of 0..MaxPackLen slots
MaxPackTarget == 3  \* pack_slots_by_target on its own: small targets and hard maxima
MaxClock == 1       \* seconds the wall clock can advance during a run
MaxUsers == 3       \* planning: the user catalog has 0..MaxUsers users
MaxCohort == 1      \* planning: cohort sizes range over -1..MaxCohort
MaxRestaurants == 1 \* planning: the restaurant catalog has 0..MaxRestaurants restaurants

Min(a, b) == IF a < b THEN a ELSE b
Max(a, b) == IF a > b THEN a ELSE b

Range(s) == {s[i] : i \in 1..Len(s)}

RECURSIVE Concat(_)
Concat(ss) == IF ss = <<>> THEN <<>> ELSE Head(ss) \o Concat(Tail(ss))

(***************************************************************************)
(* The global random source.  random.seed(RANDOM_SEED) fixes the stream;   *)
(* draw k (counted from 0) of random.random() is RandomStream(k) tenths.   *)
(***************************************************************************)
RandomStream(k) == (7 * k + 3) % 10

\* random.randint(a, b) on draw k
RandInt(k, a, b) == a + (RandomStream(k) % (b - a + 1))

(***************************************************************************)
(* fallback_review_text: three draws (tier, adjective, rating).            *)
(***************************************************************************)
fallback_review_text(k) ==
    LET r == RandomStream(k)
        u == RandomStream(k + 2)
        rating == IF r < 6 THEN 40 + u
                  ELSE IF r < 9 THEN 30 + u
                  ELSE 20 + (15 * u) \div 10
    IN  [review_text |-> [by |-> "fallback", draw |-> k + 1], rating |-> rating]

FallbackDraws == 3

(***************************************************************************)
(* Slot flattener: round robin over the buckets by position.               *)
(***************************************************************************)
Users == {1, 2, 3}
vip_users == <<1>>
loyal_users == <<2>>
regular_users == <<3>>
buckets == <<vip_users, loyal_users, regular_users>>

\* a visit plan of n visits: restaurants without repetition, dates ascending
PlanOf(n) == [j \in 1..n |-> <<n + 1 - j, 2 * (j - 1)>>]

\* the (uid, rid, vdate) triples in the order of the nested loops
RECURSIVE SlotsOfUser(_, _, _)
SlotsOfUser(uid, plan, j) ==
    IF j > Len(plan) THEN <<>>
    ELSE <<[user_id |-> uid, restaurant_id |-> plan[j][1], visited_at |-> plan[j][2]]>>
         \o SlotsOfUser(uid, plan, j + 1)

RECURSIVE FlattenFrom(_, _, _, _)
FlattenFrom(bks, plans, i, b) ==
    LET max_len == Max(Len(bks[1]), Max(Len(bks[2]), Len(bks[3])))
    IN  IF i > max_len THEN <<>>
        ELSE IF b > 3 THEN FlattenFrom(bks, plans, i + 1, 1)
        ELSE (IF i <= Len(bks[b])
                THEN SlotsOfUser(bks[b][i], plans[bks[b][i]], 1)
                ELSE <<>>)
             \o FlattenFrom(bks, plans, i, b + 1)

\* lines 397-419 for the buckets bks
FlattenOf(bks, plans) ==
    LET triples == FlattenFrom(bks, plans, 1, 1)
    IN  [k \in 1..Len(triples) |->
            [slot_id |-> k, user_id |-> triples[k].user_id,
             restaurant_id |-> triples[k].restaurant_id,
             visited_at |-> triples[k].visited_at]]

Flatten(plans) == FlattenOf(buckets, plans)

(***************************************************************************)
(* pack_slots_by_target: greedy packing, the closed batch cut to hard_max. *)
(***************************************************************************)
RECURSIVE PackFrom(_, _, _, _, _)
PackFrom(slots, i, current, tgt, hmax) ==
    IF i > Len(slots)
    THEN IF current # <<>> THEN <<current>> ELSE <<>>
    ELSE LET cur == Append(current, slots[i])
         IN  IF Len(cur) >= tgt
             THEN <<SubSeq(cur, 1, Min(hmax, Len(cur)))>> \o PackFrom(slots, i + 1, <<>>, tgt, hmax)
             ELSE PackFrom(slots, i + 1, cur, tgt, hmax)

\* a packer that emits the closed batches only and leaves out the final partial one
pack_slots_full_only(slots, tgt, hmax) ==
    SelectSeq(PackFrom(slots, 1, <<>>, tgt, hmax), LAMBDA b : Len(b) >= tgt)

pack_slots_by_target(slots, tgt, hmax) == PackFrom(slots, 1, <<>>, tgt, hmax)

(***************************************************************************)
(* The external service's answer to one call: the call raises, or returns  *)
(* a text of lines, at most one line per item of the request.  A line is   *)
(* garbage or a JSON object whose slot_id is an integer, a string, a list  *)
(* or absent, whose review_text is or is not a string and whose rating is  *)
(* or is not a number.                                                     *)
(***************************************************************************)
ServiceRatings == {-10, 70}
UnknownSlotId == 0

Garbage == [kind |-> "garbage", sid_kind |-> "none", sid |-> 0,
            txt_str |-> FALSE, rat_num |-> FALSE, rat |-> 0]
Rec(sk, s, t, n, r) == [kind |-> "rec", sid_kind |-> sk, sid |-> s,
                        txt_str |-> t, rat_num |-> n, rat |-> r]

SlotIds(slots) == {slots[i].slot_id : i \in 1..Len(slots)}

Lines(slots) ==
    LET first == slots[1].slot_id
    IN  {Garbage}
        \cup {Rec("int", s, TRUE, TRUE, r) : s \in SlotIds(slots) \cup {UnknownSlotId},
                                             r \in ServiceRatings}
        \cup {Rec("none", 0, TRUE, TRUE, 34), Rec("str", first, TRUE, TRUE, 34),
              Rec("list", first, TRUE, TRUE, 34), Rec("int", first, FALSE, TRUE, 34),
              Rec("int", first, TRUE, FALSE, 0)}

CallFailed == [ok |-> FALSE, text |-> <<>>]
Outcomes(slots) ==
    {CallFailed}
    \cup {[ok |-> TRUE, text |-> t] : t \in UNION {[1..m -> Lines(slots)] : m \in 0..Len(slots)}}

(***************************************************************************)
(* ReviewLLM.generate_for_slots.  A dict is a function whose keys are      *)
(* [t, v] records: an integer key never equals a string key.               *)
(***************************************************************************)
Key(t, v) == [t |-> t, v |-> v]
IntKey(v) == Key("int", v)
Put(d, k, v) == [x \in DOMAIN d \cup {k} |-> IF x = k THEN v ELSE d[x]]
EmptyDict == [x \in {} |-> 0]

\* the clamp without its lower end: min(5.0, rat)
ClampUpperOnly(rat) == Min(50, rat)

\* line 229: max(0.0, min(5.0, float(rat)))
Clamp(rat) == Max(0, Min(50, rat))

\* the record passes the isinstance checks and its slot_id can be a dict key
Accepted(ln) ==
    /\ ln.kind = "rec"
    /\ ln.sid_kind \in {"int", "str"}
    /\ ln.txt_str
    /\ ln.rat_num

RECURSIVE ParseLines(_, _, _)
ParseLines(text, i, results) ==
    IF i > Len(text) THEN results
    ELSE IF Accepted(text[i])
         THEN ParseLines(text, i + 1,
                  Put(results, Key(text[i].sid_kind, text[i].sid),
                      [slot_id |-> text[i].sid,
                       review_text |-> [by |-> "llm", draw |-> 0],
                       rating |-> Clamp(text[i].rat)]))
         ELSE ParseLines(text, i + 1, results)

FallbackRecord(slot, k) ==
    [slot_id |-> slot.slot_id,
     review_text |-> fallback_review_text(k).review_text,
     rating |-> fallback_review_text(k).rating]

\* lines 175-181 and 210-216: fallback content for every slot of the batch
FallbackAll(slots, k) ==
    [out |-> [i \in 1..Len(slots) |-> FallbackRecord(slots[i], k + FallbackDraws * (i - 1))],
     rng |-> k + FallbackDraws * Len(slots)]

\* ParsedOut without lines 238-240: a slot with no valid record gets nothing
ParsedOutHitsOnly(slots, text, k) ==
    LET results == ParseLines(text, 1, EmptyDict)
        hits == SelectSeq(slots, LAMBDA sl : IntKey(sl.slot_id) \in DOMAIN results)
    IN  [out |-> [i \in 1..Len(hits) |-> results[IntKey(hits[i].slot_id)]], rng |-> k]

\* lines 218-241: parse, then one record per slot, fallback for the unmatched
ParsedOut(slots, text, k) ==
    LET results == ParseLines(text, 1, EmptyDict)
        hit(i) == IntKey(slots[i].slot_id) \in DOMAIN results
        missed(i) == Cardinality({j \in 1..(i - 1) : ~hit(j)})
    IN  [out |-> [i \in 1..Len(slots) |->
                    IF hit(i) THEN results[IntKey(slots[i].slot_id)]
                    ELSE FallbackRecord(slots[i], k + FallbackDraws * missed(i))],
         rng |-> k + FallbackDraws * missed(Len(slots) + 1)]

\* generate_for_slots issuing a second call after a failed one and using its answer
generate_for_slots_retry(openai, slots, outcome, k) ==
    IF ~openai \/ slots = <<>> THEN FallbackAll(slots, k)
    ELSE IF ~outcome.ok
    THEN ParsedOut(slots, <<Rec("int", slots[1].slot_id, TRUE, TRUE, 34)>>, k)
    ELSE ParsedOut(slots, outcome.text, k)

generate_for_slots(openai, slots, outcome, k) ==
    IF ~openai \/ slots = <<>> THEN FallbackAll(slots, k)
    ELSE IF ~outcome.ok THEN FallbackAll(slots, k)
    ELSE ParsedOut(slots, outcome.text, k)

(***************************************************************************)
(* run.run_prompt: the generator's records matched back by slot id and     *)
(* turned into rows (review_id 0: not assigned yet).                       *)
(***************************************************************************)
RECURSIVE ResultsMap(_, _, _)
ResultsMap(results, i, d) ==
    IF i > Len(results) THEN d
    ELSE ResultsMap(results, i + 1, Put(d, results[i].slot_id, results[i]))

Row(slot, rating, rtxt, now) ==
    [user_id |-> slot.user_id, restaurant_id |-> slot.restaurant_id,
     rating |-> rating, review_text |-> rtxt, visited_at |-> slot.visited_at,
     created_at |-> now, updated_at |-> now, review_id |-> 0]

RunPromptRows(openai, slots, outcome, k, now) ==
    LET gen == generate_for_slots(openai, slots, outcome, k)
        results_map == ResultsMap(gen.out, 1, EmptyDict)
        hit(i) == slots[i].slot_id \in DOMAIN results_map
        missed(i) == Cardinality({j \in 1..(i - 1) : ~hit(j)})
        fb(i) == fallback_review_text(gen.rng + FallbackDraws * missed(i))
    IN  [results |-> gen.out,
         rows |-> [i \in 1..Len(slots) |->
                     IF hit(i)
                     THEN Row(slots[i], results_map[slots[i].slot_id].rating,
                              results_map[slots[i].slot_id].review_text, now)
                     ELSE Row(slots[i], fb(i).rating, fb(i).review_text, now)],
         rng |-> gen.rng + FallbackDraws * missed(Len(slots) + 1)]

\* run_prompt whose failed call costs the batch its rows
run_prompt_skip_failed(openai, slots, outcome, k, now) ==
    IF openai /\ ~outcome.ok THEN [results |-> <<>>, rows |-> <<>>, rng |-> k]
    ELSE RunPromptRows(openai, slots, outcome, k, now)

run_prompt(openai, slots, outcome, k, now) == RunPromptRows(openai, slots, outcome, k, now)

(***************************************************************************)
(* ReviewStreamer.                                                         *)
(***************************************************************************)
REVIEW_PHOTO_MIN == 0
REVIEW_PHOTO_MAX == 3

\* _build_review_photos: one randint draw per review of the chunk
RECURSIVE BuildPhotosFrom(_, _, _)
BuildPhotosFrom(chunk, i, k) ==
    IF i > Len(chunk) THEN <<>>
    ELSE LET n == RandInt(k, REVIEW_PHOTO_MIN, REVIEW_PHOTO_MAX)
         IN  [j \in 1..n |-> [review_id |-> chunk[i].review_id, image_idx |-> j,
                              created_at |-> chunk[i].created_at,
                              updated_at |-> chunk[i].updated_at]]
             \o BuildPhotosFrom(chunk, i + 1, k + 1)

\* _build_review_photos that numbers the photos' reviews one too low
build_review_photos_off_by_one(chunk, k) ==
    [photos |-> [i \in 1..Len(BuildPhotosFrom(chunk, 1, k)) |->
                    [BuildPhotosFrom(chunk, 1, k)[i] EXCEPT !.review_id = @ - 1]],
     rng |-> k + Len(chunk)]

build_review_photos(chunk, k) ==
    [photos |-> BuildPhotosFrom(chunk, 1, k), rng |-> k + Len(chunk)]

\* open(path, "w") and json.dump: the file of that key is created or replaced
WriteFile(files, key, rows) ==
    IF \E i \in 1..Len(files) : files[i].key = key
    THEN [i \in 1..Len(files) |->
             IF files[i].key = key THEN [key |-> key, rows |-> rows] ELSE files[i]]
    ELSE Append(files, [key |-> key, rows |-> rows])

\* AssignIds without line 319: the counter is not advanced inside the loop
AssignIdsNoIncrement(rows, next) ==
    [i \in 1..Len(rows) |-> [rows[i] EXCEPT !.review_id = next]]

\* lines 317-320: ids assigned in order of the rows, rows appended to the buffer
AssignIds(rows, next) ==
    [i \in 1..Len(rows) |-> [rows[i] EXCEPT !.review_id = next + i - 1]]

\* a chunk write that skips a chunk whose write raises: no error, the rows gone
WriteChunkSkipping(s, chunk, failAt) ==
    LET last_id == chunk[Len(chunk)].review_id
        photos == build_review_photos(chunk, s.rng)
    IN  IF failAt # 0 THEN [s EXCEPT !.buffer = SubSeq(@, Len(chunk) + 1, Len(@))]
        ELSE [s EXCEPT !.review_files = WriteFile(@, last_id, chunk),
                       !.photo_files = WriteFile(@, last_id, photos.photos),
                       !.rng = photos.rng,
                       !.buffer = SubSeq(@, Len(chunk) + 1, Len(@))]

(* One chunk write, lines 323-338 and 345-360, on the streamer state s.     *)
(* failAt = 1: writing the review file raises; 2: writing the photo file    *)
(* raises; a file whose write raises is left as it was.                     *)
WriteChunk(s, chunk, failAt) ==
    LET last_id == chunk[Len(chunk)].review_id
        photos == build_review_photos(chunk, s.rng)
    IN  IF failAt = 1 THEN [s EXCEPT !.err = TRUE]
        ELSE IF failAt = 2
        THEN [s EXCEPT !.review_files = WriteFile(@, last_id, chunk),
                       !.rng = photos.rng, !.err = TRUE]
        ELSE [s EXCEPT !.review_files = WriteFile(@, last_id, chunk),
                       !.photo_files = WriteFile(@, last_id, photos.photos),
                       !.rng = photos.rng,
                       !.buffer = SubSeq(@, Len(chunk) + 1, Len(@))]

\* a flush that writes one chunk at most: `if` in place of `while`
FlushOnce(s, csize, failAt) ==
    IF Len(s.buffer) < csize THEN s
    ELSE WriteChunk(s, SubSeq(s.buffer, 1, csize), IF failAt \in {1, 2} THEN failAt ELSE 0)

\* lines 322-338: the flush loop; failAt counts the file writes of the call
RECURSIVE FlushLoop(_, _, _)
FlushLoop(s, csize, failAt) ==
    IF Len(s.buffer) < csize THEN s
    ELSE LET w == WriteChunk(s, SubSeq(s.buffer, 1, csize), IF failAt \in {1, 2} THEN failAt ELSE 0)
         IN  IF w.err THEN w
             ELSE FlushLoop(w, csize, IF failAt = 0 THEN 0 ELSE failAt - 2)

StreamerState ==
    [buffer |-> buffer, next_review_id |-> next_review_id, review_files |-> review_files,
     photo_files |-> photo_files, rng |-> rng, err |-> FALSE]

add_rows_and_maybe_flush(s, rows, csize, failAt) ==
    FlushLoop([s EXCEPT !.buffer = @ \o AssignIds(rows, s.next_review_id),
                        !.next_review_id = @ + Len(rows)],
              csize, failAt)

\* flush_remaining that drops the partial buffer instead of writing it
flush_remaining_dropping(s, failAt) == [s EXCEPT !.buffer = <<>>]

flush_remaining(s, failAt) ==
    IF s.buffer = <<>> THEN s
    ELSE WriteChunk(s, s.buffer, failAt)

\* the file writes a call would make: the failure points offered to it
WritesOfAdd(s, rows, csize) == 2 * ((Len(s.buffer) + Len(rows)) \div csize)
WritesOfFlush(s) == IF s.buffer = <<>> THEN 0 ELSE 2

SetStreamer(s) ==
    /\ buffer' = s.buffer
    /\ next_review_id' = s.next_review_id
    /\ review_files' = s.review_files
    /\ photo_files' = s.photo_files
    /\ rng' = s.rng
    /\ write_errors' = IF s.err THEN write_errors + 1 ELSE write_errors

(***************************************************************************)
(* run(): the part after the plans are built (lines 397-469).              *)
(***************************************************************************)
\* the wall clock's reading when the run starts
FirstInstant == 0

\* the catalogs and cohorts behind the plans of Plans: three users, one per cohort
FixedCohorts ==
    /\ user_ids = <<1, 2, 3>>
    /\ restaurant_ids = [i \in 1..MaxVisits |-> i]
    /\ VIP_COUNT = 1
    /\ LOYAL_COUNT = 1
    /\ REGULAR_COUNT = 1
    /\ reviews_range = <<<<0, MaxVisits>>, <<0, MaxVisits>>, <<0, MaxVisits>>>>
    /\ cohorts = buckets
    /\ assigned = 3
    /\ plan_n = [u \in Users |-> Len(user_plan[u])]

IdleTask == [st |-> "idle", results |-> <<>>, rows |-> <<>>, calls |-> 0, failed |-> FALSE]

NoDates ==
    /\ date_start = <<2023, 1, 1>>
    /\ total_days = 0
    /\ n_dates = 0
    /\ used_days = {}
    /\ attempts = 0
    /\ dates = <<>>

NewStreamer ==
    /\ buffer = <<>>
    /\ next_review_id = 1
    /\ review_files = <<>>
    /\ photo_files = <<>>
    /\ write_errors = 0

PlanSize(p) == Len(p[1]) + Len(p[2]) + Len(p[3])

\* the plans of a run: the VIP user has at least as many visits as the loyal
\* user, who has at least as many as the regular user
Plans ==
    {p \in [Users -> {PlanOf(n) : n \in 0..MaxVisits}] :
        /\ PlanSize(p) <= MaxSlots
        /\ Len(p[1]) >= Len(p[2])
        /\ Len(p[2]) >= Len(p[3])}

\* the wall clock reads the same second throughout a run of Spec; SpecClock lets it tick
Init ==
    /\ nowts = FirstInstant
    /\ target \in 1..MaxTarget
    /\ hard_max \in 1..MaxTarget
    /\ chunk_size \in 1..MaxChunk
    /\ concurrent_prompts \in 1..MaxWindow
    /\ use_openai \in BOOLEAN
    /\ user_plan \in Plans
    /\ FixedCohorts
    /\ all_slots = Flatten(user_plan)
    /\ batches = pack_slots_by_target(all_slots, target, hard_max)
    /\ pc = "window"
    /\ start = 0
    /\ idx = 0
    /\ tasks = [b \in 1..Len(batches) |-> IdleTask]
    /\ completion = <<>>
    /\ rng = 0
    /\ NewStreamer
    /\ fed = 0
    /\ NoDates

total_tasks == Len(batches)

\* the batch indices of the window that begins after `start`
\* a window that takes every task that is left
GroupOfAllRemaining == (start + 1)..total_tasks

Group == (start + 1)..Min(start + concurrent_prompts, total_tasks)

(* Without the service a task runs to its end when it is first scheduled,    *)
(* so the tasks of a window finish in submission order, each drawing its     *)
(* fallback content from the global random source in turn.                   *)
RECURSIVE RunLocally(_, _, _, _, _)
RunLocally(ts, b, last, k, now) ==
    IF b > last THEN [tasks |-> ts, rng |-> k]
    ELSE LET r == run_prompt(FALSE, batches[b], CallFailed, k, now)
         IN  RunLocally([ts EXCEPT ![b] = [st |-> "done", results |-> r.results,
                                           rows |-> r.rows, calls |-> 0, failed |-> FALSE]],
                        b + 1, last, r.rng, now)

\* the results of the window before are dropped when results_lists is rebound
Collected(t) ==
    IF t.st = "done" THEN [IdleTask EXCEPT !.st = "collected", !.calls = t.calls] ELSE t

\* line 461-463: the next window's tasks are created and started
StartWindow ==
    /\ pc = "window"
    /\ start < total_tasks
    /\ IF use_openai
       THEN /\ tasks' = [b \in DOMAIN tasks |->
                            IF b \in Group
                            THEN [tasks[b] EXCEPT !.st = "called", !.calls = @ + 1]
                            ELSE Collected(tasks[b])]
            /\ completion' = <<>>
            /\ UNCHANGED rng
       ELSE LET r == RunLocally([b \in DOMAIN tasks |-> Collected(tasks[b])], start + 1,
                                Min(start + concurrent_prompts, total_tasks), rng, nowts)
            IN  /\ tasks' = r.tasks
                /\ rng' = r.rng
                /\ completion' = [i \in 1..Cardinality(Group) |-> start + i]
    /\ pc' = "gather"
    /\ UNCHANGED <<clockVars, catalogVars, cohortVars, configVars, planVars, start, idx, streamerVars, fed, datesVars>>

(* The call of batch b returns (or raises) and its task runs to its end:     *)
(* lines 208-241 of generate_for_slots, then lines 432-457 of run_prompt.    *)
Complete(b) ==
    /\ pc = "gather"
    /\ b \in Group
    /\ tasks[b].st = "called"
    /\ \E outcome \in Outcomes(batches[b]) :
         LET r == run_prompt(use_openai, batches[b], outcome, rng, nowts)
         IN  /\ tasks' = [tasks EXCEPT ![b] = [st |-> "done", results |-> r.results,
                                                rows |-> r.rows, calls |-> tasks[b].calls,
                                                failed |-> ~outcome.ok]]
             /\ rng' = r.rng
    /\ completion' = Append(completion, b)
    /\ UNCHANGED <<clockVars, catalogVars, cohortVars, configVars, planVars, pc, start, idx, streamerVars, fed, datesVars>>

\* line 463: gather returns once every task of the window is done
\* a gather that returns without waiting for the window's tasks
GatherWithoutWaiting ==
    /\ pc = "gather"
    /\ pc' = "handoff"
    /\ idx' = 0
    /\ UNCHANGED <<clockVars, catalogVars, cohortVars, configVars, planVars, start, tasks, completion, rng, streamerVars, fed,
                   datesVars>>

Gather ==
    /\ pc = "gather"
    /\ \A b \in Group : tasks[b].st = "done"
    /\ pc' = "handoff"
    /\ idx' = 0
    /\ UNCHANGED <<clockVars, catalogVars, cohortVars, configVars, planVars, start, tasks, completion, rng, streamerVars, fed,
                   datesVars>>

\* results_lists in the order the window's tasks completed
ResultsListsByCompletion(first, n, done) == [i \in 1..n |-> done[i]]

\* line 463-464: results_lists holds the rows of the window's tasks in the order
\* the tasks were passed to gather
ResultsLists(first, n, done) == [i \in 1..n |-> first + i]

\* lines 464-467: one turn of the hand-off loop; a write that raises ends run()
Handoff ==
    /\ pc = "handoff"
    /\ idx < Cardinality(Group)
    /\ LET b == ResultsLists(start, Cardinality(Group), completion)[idx + 1]
           rows == tasks[b].rows
       IN  \E failAt \in 0..WritesOfAdd(StreamerState, rows, chunk_size) :
             LET s == add_rows_and_maybe_flush(StreamerState, rows, chunk_size, failAt)
             IN  /\ SetStreamer(s)
                 /\ IF s.err
                    THEN /\ pc' = "failed"
                         /\ UNCHANGED <<start, idx>>
                    ELSE IF idx + 1 < Cardinality(Group)
                    THEN /\ idx' = idx + 1
                         /\ UNCHANGED <<pc, start>>
                    ELSE /\ idx' = 0
                         /\ start' = start + concurrent_prompts
                         /\ pc' = "window"
    /\ UNCHANGED <<clockVars, catalogVars, cohortVars, configVars, planVars, tasks, completion, fed, datesVars>>

\* line 469
FlushRemaining ==
    /\ pc = "window"
    /\ start >= total_tasks
    /\ \E failAt \in 0..WritesOfFlush(StreamerState) :
         LET s == flush_remaining(StreamerState, failAt)
         IN  /\ SetStreamer(s)
             /\ pc' = IF s.err THEN "failed" ELSE "done"
    /\ UNCHANGED <<clockVars, catalogVars, cohortVars, configVars, planVars, runVars, fed, datesVars>>

Next ==
    \/ StartWindow
    \/ \E b \in DOMAIN tasks : Complete(b)
    \/ Gather
    \/ Handoff
    \/ FlushRemaining

Spec == Init /\ [][Next]_vars

FairSpec ==
    /\ Spec
    /\ WF_vars(StartWindow)
    /\ WF_vars(Gather)
    /\ WF_vars(Handoff)
    /\ WF_vars(FlushRemaining)

(***************************************************************************)
(* What the run has produced.                                              *)
(***************************************************************************)
WrittenRows == Concat([i \in 1..Len(review_files) |-> review_files[i].rows])
KnownRows == Range(WrittenRows) \cup Range(buffer)
BatchedSlots == Concat(batches)

SameSlot(r, s) ==
    /\ r.user_id = s.user_id
    /\ r.restaurant_id = s.restaurant_id
    /\ r.visited_at = s.visited_at

\* the review id of the slot's row, 0 while it has none
RowIdOf(s) ==
    IF \E r \in KnownRows : SameSlot(r, s)
    THEN (CHOOSE r \in KnownRows : SameSlot(r, s)).review_id
    ELSE 0

WrittenRowsOf(s) == {i \in 1..Len(WrittenRows) : SameSlot(WrittenRows[i], s)}

SameWindow(a, b) == (a - 1) \div concurrent_prompts = (b - 1) \div concurrent_prompts

\* batch b completed before batch a although it was submitted after it
Overtook(b, a) ==
    /\ a < b
    /\ \E i, j \in 1..Len(completion) : i < j /\ completion[i] = b /\ completion[j] = a

HandedOff(b) == \A i \in 1..Len(batches[b]) : RowIdOf(batches[b][i]) # 0

(* C1: once run() has completed, every slot of the flattener has exactly    *)
(* one written row, for every batch target, hard maximum, chunk size and    *)
(* window size.                                                             *)
C1_EverySlotOneRow ==
    pc = "done" => \A k \in 1..Len(all_slots) : Cardinality(WrittenRowsOf(all_slots[k])) = 1

(* C4: whatever the completion order inside a window, a row's review id is  *)
(* the position of its slot in the submitted batches; when no slot was      *)
(* dropped, the row of slot id k has review id k.                           *)
C4_SubmissionOrderIds ==
    \A r \in KnownRows :
        \E i \in 1..Len(BatchedSlots) :
            /\ SameSlot(r, BatchedSlots[i])
            /\ r.review_id = i
            /\ (BatchedSlots = all_slots => r.review_id = BatchedSlots[i].slot_id)

C4_Witness ==
    /\ pc = "done"
    /\ \E a, b \in 1..Len(batches) : Overtook(b, a) /\ HandedOff(a) /\ HandedOff(b)

(* C5 as stated: a batch that completed before an earlier-submitted batch   *)
(* of its window has the smaller review ids.                                *)
C5_CompletionOrderIds ==
    \A a, b \in 1..Len(batches) :
        (Overtook(b, a) /\ HandedOff(a) /\ HandedOff(b))
            => \A i \in 1..Len(batches[a]), j \in 1..Len(batches[b]) :
                   RowIdOf(batches[b][j]) < RowIdOf(batches[a][i])

(* C5 amended: the rows are handed to the writer in submission order; a     *)
(* batch that completed before an earlier-submitted batch of its window     *)
(* still has the larger review ids.                                         *)
C5_SubmissionOrderWins ==
    \A a, b \in 1..Len(batches) :
        (Overtook(b, a) /\ HandedOff(b))
            => /\ HandedOff(a)
               /\ \A i \in 1..Len(batches[a]), j \in 1..Len(batches[b]) :
                      RowIdOf(batches[a][i]) < RowIdOf(batches[b][j])

C5_Witness ==
    \E a, b \in 1..Len(batches) :
        Overtook(b, a) /\ SameWindow(a, b) /\ HandedOff(a) /\ HandedOff(b)

(* C6: whatever the service answered, generate_for_slots returned exactly   *)
(* one record per slot of the batch, the i-th keyed by the i-th slot's id.  *)
C6_OneRecordPerSlot ==
    \A b \in DOMAIN tasks :
        tasks[b].st = "done"
            => /\ Len(tasks[b].results) = Len(batches[b])
               /\ \A i \in 1..Len(batches[b]) :
                      tasks[b].results[i].slot_id = batches[b][i].slot_id

\* a batch of two slots whose answer covered one slot only
C6_Witness ==
    \E b \in DOMAIN tasks :
        /\ tasks[b].st = "done"
        /\ ~tasks[b].failed
        /\ Len(batches[b]) = 2
        /\ tasks[b].results[1].review_text.by = "llm"
        /\ tasks[b].results[2].review_text.by = "fallback"

(* C7: a batch whose call failed has fallback content in every record and   *)
(* row, and exactly one call was issued for it.                             *)
C7_FailedBatchAllFallback ==
    \A b \in DOMAIN tasks :
        /\ tasks[b].calls <= 1
        /\ (tasks[b].st = "done" /\ tasks[b].failed)
              => /\ tasks[b].calls = 1
                 /\ Len(tasks[b].rows) = Len(batches[b])
                 /\ \A i \in 1..Len(tasks[b].results) :
                        tasks[b].results[i].review_text.by = "fallback"
                 /\ \A i \in 1..Len(tasks[b].rows) :
                        tasks[b].rows[i].review_text.by = "fallback"

C7_Witness ==
    \E b \in DOMAIN tasks :
        tasks[b].st = "done" /\ tasks[b].failed /\ Len(batches[b]) = 2

(* C8: a failed call never ends the run (the run fails only in a write,     *)
(* after the window was gathered); the failed batch is written with         *)
(* fallback content, a batch whose call succeeded is written with the       *)
(* content its own call returned, and a completed run has written one row   *)
(* for every slot of every batch (for every slot, when the packer dropped   *)
(* none).                                                                   *)
RowContentKept(b) ==
    \A i \in 1..Len(batches[b]) :
        \A r \in KnownRows :
            SameSlot(r, batches[b][i])
                => /\ r.rating = tasks[b].results[i].rating
                   /\ r.review_text = tasks[b].results[i].review_text
                   /\ (tasks[b].failed => r.review_text.by = "fallback")

C8_FailureIsolated ==
    /\ pc = "failed" => \A b \in Group : tasks[b].st = "done"
    /\ \A b \in DOMAIN tasks : tasks[b].st = "done" => RowContentKept(b)
    /\ pc = "done" =>
          /\ \A i \in 1..Len(BatchedSlots) : Cardinality(WrittenRowsOf(BatchedSlots[i])) = 1
          /\ target <= hard_max =>
                \A k \in 1..Len(all_slots) : Cardinality(WrittenRowsOf(all_slots[k])) = 1

\* a completed run with a failed batch and, in its window, a batch written with
\* service content
C8_Witness ==
    /\ pc = "done"
    /\ \E a, b \in DOMAIN tasks :
          /\ a # b
          /\ SameWindow(a, b)
          /\ tasks[a].failed
          /\ ~tasks[b].failed
          /\ \E r \in Range(WrittenRows) :
                SameSlot(r, batches[b][1]) /\ r.review_text.by = "llm"

(* C9: every window's calls eventually all return, so run() leaves the      *)
(* gather and goes on towards flush_remaining.                              *)
C9_GatherReturns == (pc = "gather") ~> (pc # "gather")

(***************************************************************************)
(* A ReviewStreamer on its own: any sequence of add_rows_and_maybe_flush   *)
(* calls, then flush_remaining.  The k-th row fed carries user id k.  A    *)
(* caller that catches the error of a failed write may go on calling.      *)
(***************************************************************************)
FedRow(k) == Row([user_id |-> k, restaurant_id |-> k, visited_at |-> 0], 34,
                 [by |-> "llm", draw |-> 0], nowts)

NoRun ==
    /\ nowts = FirstInstant
    /\ user_plan = [u \in Users |-> <<>>]
    /\ FixedCohorts
    /\ target = 1
    /\ hard_max = 1
    /\ concurrent_prompts = 1
    /\ use_openai = FALSE
    /\ all_slots = <<>>
    /\ batches = <<>>
    /\ start = 0
    /\ idx = 0
    /\ tasks = <<>>
    /\ completion = <<>>
    /\ rng = 0

InitWriter ==
    /\ NoRun
    /\ chunk_size \in 1..MaxChunk
    /\ pc = "feeding"
    /\ NewStreamer
    /\ fed = 0
    /\ NoDates

AddRows(m) ==
    /\ pc \in {"feeding", "failed"}
    /\ fed + m <= MaxRows
    /\ LET rows == [i \in 1..m |-> FedRow(fed + i)]
       IN  \E failAt \in 0..WritesOfAdd(StreamerState, rows, chunk_size) :
             LET s == add_rows_and_maybe_flush(StreamerState, rows, chunk_size, failAt)
             IN  /\ failAt # 0 => write_errors < MaxWriteErrors
                 /\ SetStreamer(s)
                 /\ pc' = IF s.err THEN "failed" ELSE "feeding"
    /\ fed' = fed + m
    /\ UNCHANGED <<clockVars, catalogVars, cohortVars, configVars, planVars, runVars, datesVars>>

FlushLast ==
    /\ pc \in {"feeding", "failed"}
    /\ \E failAt \in 0..WritesOfFlush(StreamerState) :
         LET s == flush_remaining(StreamerState, failAt)
         IN  /\ failAt # 0 => write_errors < MaxWriteErrors
             /\ SetStreamer(s)
             /\ pc' = IF s.err THEN "failed" ELSE "flushed"
    /\ UNCHANGED <<clockVars, catalogVars, cohortVars, configVars, planVars, runVars, fed, datesVars>>

NextWriter ==
    \/ \E m \in 0..MaxAdd : AddRows(m)
    \/ FlushLast

SpecWriter == InitWriter /\ [][NextWriter]_vars

\* the review id of the k-th row fed, 0 while it has none
FedRowId(k) == RowIdOf([user_id |-> k, restaurant_id |-> k, visited_at |-> 0])

(* C2: the rows appended so far carry the ids 1, 2, 3, ... in append order, *)
(* without gap or reuse, and no step changes an id once it is assigned,     *)
(* a step whose chunk write fails included.                                 *)
C2_IdsDense ==
    /\ next_review_id = fed + 1
    /\ {r.review_id : r \in KnownRows} = 1..fed
    /\ \A r \in KnownRows : r.review_id = r.user_id
    /\ \A i \in 1..Len(buffer) : i > 1 => buffer[i].review_id = buffer[i - 1].review_id + 1

C2_IdsStable ==
    \A k \in 1..MaxRows : FedRowId(k) # 0 => FedRowId(k)' = FedRowId(k)

C2_DenseStableIds == C2_IdsDense /\ [][C2_IdsDense' /\ C2_IdsStable]_vars

\* a write failed after an earlier chunk was written and later rows got their ids
C2_Witness ==
    /\ pc = "failed"
    /\ Len(review_files) >= 1
    /\ \E i \in 1..Len(buffer) : buffer[i].review_id > review_files[1].key + 1

(* C3: after N rows, fed in any split, and flush_remaining, with no write   *)
(* failing, there are ceil(N/C) review chunks; chunk i holds the ids        *)
(* (i-1)C+1 .. min(iC, N) in order and is keyed by the last of them.        *)
CeilDiv(a, b) == (a + b - 1) \div b

C3_ChunkLayout ==
    (pc = "flushed" /\ write_errors = 0) =>
        /\ Len(review_files) = CeilDiv(fed, chunk_size)
        /\ buffer = <<>>
        /\ \A i \in 1..Len(review_files) :
              LET rows == review_files[i].rows
                  size == IF i < Len(review_files) \/ fed % chunk_size = 0
                          THEN chunk_size ELSE fed % chunk_size
              IN  /\ Len(rows) = size
                  /\ \A j \in 1..Len(rows) : rows[j].review_id = (i - 1) * chunk_size + j
                  /\ review_files[i].key = rows[Len(rows)].review_id

\* five rows in chunks of two: 2, 2, 1
C3_Witness ==
    /\ pc = "flushed"
    /\ write_errors = 0
    /\ chunk_size = 2
    /\ fed = 5
    /\ Len(review_files) = 3
    /\ Len(review_files[3].rows) = 1

(***************************************************************************)
(* gen_user_dates (lines 95-132).  A date is <<year, month, day>>; the     *)
(* strings that strftime("%Y-%m-%d") makes of two dates compare as the     *)
(* triples do.                                                             *)
(***************************************************************************)
AttemptsPerDate == 200

IsLeap(y) == (y % 4 = 0 /\ y % 100 # 0) \/ y % 400 = 0

DaysInMonth(y, m) ==
    IF m = 2 THEN (IF IsLeap(y) THEN 29 ELSE 28)
    ELSE IF m \in {4, 6, 9, 11} THEN 30
    ELSE 31

NextDay(date) ==
    IF date[3] < DaysInMonth(date[1], date[2]) THEN <<date[1], date[2], date[3] + 1>>
    ELSE IF date[2] < 12 THEN <<date[1], date[2] + 1, 1>>
    ELSE <<date[1] + 1, 1, 1>>

\* DATE_START + timedelta(days=dd)
RECURSIVE AddDays(_, _)
AddDays(date, dd) == IF dd = 0 THEN date ELSE AddDays(NextDay(date), dd - 1)

\* strftime with the day first: "%d-%m-%Y"
FormatDateDayFirst(date) == <<date[3], date[2], date[1]>>

\* strftime("%Y-%m-%d")
FormatDate(date) == date

\* the order of two formatted dates as strings
DateLess(a, b) ==
    \/ a[1] < b[1]
    \/ a[1] = b[1] /\ a[2] < b[2]
    \/ a[1] = b[1] /\ a[2] = b[2] /\ a[3] < b[3]

\* sorted(used_days)
RECURSIVE SortedDays(_)
SortedDays(days) ==
    IF days = {} THEN <<>>
    ELSE LET least == CHOOSE d \in days : \A e \in days : d <= e
         IN  <<least>> \o SortedDays(days \ {least})

\* lines 131-132
ReturnedDates(first, days, n) ==
    LET sorted == SortedDays(days)
        all == [i \in 1..Len(sorted) |-> FormatDate(AddDays(first, sorted[i]))]
    IN  SubSeq(all, 1, Min(n, Len(all)))

max_attempts == n_dates * AttemptsPerDate

InitDates ==
    /\ NoRun
    /\ chunk_size = 1
    /\ NewStreamer
    /\ fed = 0
    /\ date_start \in {<<2023, 1, 1>>, <<2023, 12, 31>>}
    /\ total_days \in 1..MaxDays
    /\ n_dates \in 0..MaxN
    /\ used_days = {}
    /\ attempts = 0
    /\ dates = <<>>
    /\ pc = "phase1"

datesFrame == UNCHANGED <<clockVars, catalogVars, cohortVars, configVars, planVars, runVars, rng, streamerVars, fed,
                          date_start, total_days, n_dates>>

\* lines 101-102
ReturnEmpty ==
    /\ pc = "phase1"
    /\ n_dates <= 0
    /\ pc' = "return"
    /\ UNCHANGED <<used_days, attempts, dates>>
    /\ datesFrame

\* lines 110-116: one turn of the first loop, drawing d
Phase1(d) ==
    /\ pc = "phase1"
    /\ n_dates > 0
    /\ Cardinality(used_days) < n_dates
    /\ attempts < max_attempts
    /\ used_days' = IF \E u \in used_days : (IF u > d THEN u - d ELSE d - u) < 2
                    THEN used_days ELSE used_days \cup {d}
    /\ attempts' = attempts + 1
    /\ UNCHANGED <<pc, dates>>
    /\ datesFrame

Phase1Done ==
    /\ pc = "phase1"
    /\ n_dates > 0
    /\ ~(Cardinality(used_days) < n_dates /\ attempts < max_attempts)
    /\ pc' = "phase2"
    /\ UNCHANGED <<used_days, attempts, dates>>
    /\ datesFrame

\* lines 119-123: one turn of the second loop
Phase2(d) ==
    /\ pc = "phase2"
    /\ Cardinality(used_days) < n_dates
    /\ attempts < max_attempts * 2
    /\ used_days' = IF d \notin used_days /\ (d - 1) \notin used_days /\ (d + 1) \notin used_days
                    THEN used_days \cup {d} ELSE used_days
    /\ attempts' = attempts + 1
    /\ UNCHANGED <<pc, dates>>
    /\ datesFrame

Phase2Done ==
    /\ pc = "phase2"
    /\ ~(Cardinality(used_days) < n_dates /\ attempts < max_attempts * 2)
    /\ pc' = "phase3"
    /\ UNCHANGED <<used_days, attempts, dates>>
    /\ datesFrame

\* lines 126-129: one turn of the third loop
Phase3(d) ==
    /\ pc = "phase3"
    /\ Cardinality(used_days) < n_dates
    /\ used_days' = IF d \notin used_days THEN used_days \cup {d} ELSE used_days
    /\ UNCHANGED <<pc, attempts, dates>>
    /\ datesFrame

\* lines 131-132
Return ==
    /\ pc = "phase3"
    /\ ~(Cardinality(used_days) < n_dates)
    /\ dates' = ReturnedDates(date_start, used_days, n_dates)
    /\ pc' = "return"
    /\ UNCHANGED <<used_days, attempts>>
    /\ datesFrame

\* random.randint(0, total_days - 1)
Draws == 0..(total_days - 1)

NextDates ==
    \/ ReturnEmpty
    \/ \E d \in Draws : Phase1(d)
    \/ Phase1Done
    \/ \E d \in Draws : Phase2(d)
    \/ Phase2Done
    \/ \E d \in Draws : Phase3(d)
    \/ Return

SpecDates == InitDates /\ [][NextDates]_vars

\* a loop that can still change the state does so eventually: no value of the
\* draw is withheld for ever
FairSpecDates == SpecDates /\ WF_vars(NextDates)

DatesResultOk ==
    /\ Len(dates) = n_dates
    /\ \A i \in 1..Len(dates) : i > 1 => DateLess(dates[i - 1], dates[i])
    /\ \A i, j \in 1..Len(dates) : i # j => dates[i] # dates[j]

InitDatesFeasible ==
    /\ NoRun
    /\ chunk_size = 1
    /\ NewStreamer
    /\ fed = 0
    /\ date_start \in {<<2023, 1, 1>>, <<2024, 2, 27>>}
    /\ n_dates \in 0..MaxN
    /\ total_days \in Max(1, 2 * n_dates)..(2 * n_dates + MaxSpareDays)
    /\ used_days = {}
    /\ attempts = 0
    /\ dates = <<>>
    /\ pc = "phase1"

SpecDatesFeasible == InitDatesFeasible /\ [][NextDates]_vars

\* two formatted dates are the same day or consecutive days
Adjacent(a, b) == a = b \/ b = FormatDate(NextDay(a)) \/ a = FormatDate(NextDay(b))

(* C11 as stated: whenever n is at most half the number of days of the      *)
(* range, the dates gen_user_dates(n) returns are pairwise at least two     *)
(* days apart, whatever the random draws were.                              *)
C11_NoAdjacentDates ==
    (pc = "return" /\ 2 * n_dates <= total_days) =>
        \A i, j \in 1..Len(dates) : i # j => ~Adjacent(dates[i], dates[j])

(***************************************************************************)
(* pack_slots_by_target on its own (lines 271-283): any slot sequence,     *)
(* the default pair (target 20, hard_max 24) and every pair of small       *)
(* positive values.                                                        *)
(***************************************************************************)
DefaultTarget == 20
DefaultHardMax == 24

\* a slot sequence of n slots; the packer never looks inside a slot
SlotSeq(n) ==
    [k \in 1..n |-> [slot_id |-> k, user_id |-> 1, restaurant_id |-> (k % 2) + 1,
                     visited_at |-> 0]]

PackPairs ==
    ((1..MaxPackTarget) \X (1..MaxPackTarget)) \cup {<<DefaultTarget, DefaultHardMax>>}

InitPacker ==
    /\ \E pair \in PackPairs : target = pair[1] /\ hard_max = pair[2]
    /\ \E n \in 0..MaxPackLen : all_slots = SlotSeq(n)
    /\ batches = <<>>
    /\ pc = "pack"
    /\ nowts = FirstInstant
    /\ chunk_size = 1
    /\ concurrent_prompts = 1
    /\ use_openai = FALSE
    /\ user_plan = [u \in Users |-> <<>>]
    /\ FixedCohorts
    /\ start = 0
    /\ idx = 0
    /\ tasks = <<>>
    /\ completion = <<>>
    /\ rng = 0
    /\ NewStreamer
    /\ fed = 0
    /\ NoDates

\* line 422: batches = pack_slots_by_target(all_slots, target, hard_max)
Pack ==
    /\ pc = "pack"
    /\ batches' = pack_slots_by_target(all_slots, target, hard_max)
    /\ pc' = "packed"
    /\ UNCHANGED <<clockVars, catalogVars, cohortVars, configVars, user_plan, all_slots, runVars, rng, streamerVars, fed,
                   datesVars>>

NextPacker == Pack

SpecPacker == InitPacker /\ [][NextPacker]_vars

(* C12: with target 20 and hard_max 24, the batches pack_slots_by_target    *)
(* returns, put end to end, are the input sequence: no slot lost,           *)
(* duplicated or moved.                                                     *)
C12_ConcatIsInput ==
    (pc = "packed" /\ target = DefaultTarget /\ hard_max = DefaultHardMax) =>
        Concat(batches) = all_slots

\* two full batches and a partial one
C12_Witness ==
    /\ pc = "packed"
    /\ target = DefaultTarget
    /\ hard_max = DefaultHardMax
    /\ Len(batches) = 3
    /\ Len(batches[3]) < DefaultTarget

(* C13 as stated: for every positive target and hard_max, every batch,      *)
(* the final partial one included, has at most hard_max slots, and every    *)
(* batch but the last has at least target slots.                            *)
C13_BatchSizes ==
    pc = "packed" =>
        /\ \A b \in 1..Len(batches) : Len(batches[b]) <= hard_max
        /\ \A b \in 1..(Len(batches) - 1) : Len(batches[b]) >= target

(* C14: every written row has a rating from 0.0 to 5.0, whatever number     *)
(* the external service returned for it and whichever fallback path made    *)
(* its content (service absent, call failed, record missing or discarded);  *)
(* so has every row still in the buffer.                                    *)
C14_RatingInRange ==
    \A r \in KnownRows : r.rating >= 0 /\ r.rating <= 50

\* written side by side: a service rating below 0.0 clamped to 0.0, one above
\* 5.0 clamped to 5.0, and a fallback rating
C14_Witness ==
    \E r1, r2, r3 \in Range(WrittenRows) :
        /\ r1.review_text.by = "llm" /\ r1.rating = 0
        /\ r2.review_text.by = "llm" /\ r2.rating = 50
        /\ r3.review_text.by = "fallback"

(***************************************************************************)
(* A write that raises (lines 326-333, 345-355) is not caught anywhere in  *)
(* the streamer or in run(): it ends the run.                              *)
(***************************************************************************)
FileKeys(files) == {files[i].key : i \in 1..Len(files)}

\* the largest id of a chunk whose two files are both written, 0 if none is
LastPersistedId ==
    IF FileKeys(photo_files) = {} THEN 0
    ELSE CHOOSE k \in FileKeys(photo_files) : \A j \in FileKeys(photo_files) : j <= k

\* every assigned id is still accounted for: its row is in a chunk with both files
\* written or still in the buffer, in id order
NothingSkipped ==
    /\ FileKeys(photo_files) \subseteq FileKeys(review_files)
    /\ Len(buffer) = next_review_id - 1 - LastPersistedId
    /\ \A i \in 1..Len(buffer) : buffer[i].review_id = LastPersistedId + i
    /\ pc # "failed" => FileKeys(review_files) = FileKeys(photo_files)
    /\ pc = "failed" =>
          /\ write_errors = 1
          /\ buffer # <<>>
          /\ Cardinality(FileKeys(review_files) \ FileKeys(photo_files)) <= 1

(* C18: when writing a review chunk or its photo chunk fails the run stops: *)
(* no step follows that writes a chunk or assigns a review id, and the rows *)
(* of the failed chunk (and every row after them) are still in the buffer,  *)
(* so no id is skipped as if its row had been written.                      *)
C18_WriteFailureStops ==
    /\ NothingSkipped
    /\ [][/\ NothingSkipped'
          /\ pc = "failed" => UNCHANGED <<pc, streamerVars>>]_vars

\* the run has stopped on a failed photo chunk write after a chunk written in full
C18_Witness ==
    /\ pc = "failed"
    /\ Len(photo_files) >= 1
    /\ Len(review_files) = Len(photo_files) + 1
    /\ Len(buffer) >= 1

\* the configuration values of this run that the claim calls invalid
InvalidConfig == chunk_size < 1 \/ target > hard_max

(* C17 as stated: a run with an invalid configuration value (here a batch   *)
(* target above the hard maximum) is rejected at startup and never writes   *)
(* an output chunk.                                                         *)
C17_InvalidConfigNoOutput ==
    InvalidConfig => (review_files = <<>> /\ photo_files = <<>>)

(***************************************************************************)
(* Runs without the external service while the wall clock ticks.           *)
(* run_prompt reads the clock once per batch (line 434) and stamps the     *)
(* batch's rows with the reading.                                          *)
(***************************************************************************)
InitClock ==
    /\ nowts \in FirstInstant..MaxClock
    /\ target \in 1..MaxTarget
    /\ hard_max \in 1..MaxTarget
    /\ chunk_size \in 1..MaxChunk
    /\ concurrent_prompts \in 1..MaxWindow
    /\ use_openai = FALSE
    /\ user_plan \in Plans
    /\ FixedCohorts
    /\ all_slots = Flatten(user_plan)
    /\ batches = pack_slots_by_target(all_slots, target, hard_max)
    /\ pc = "window"
    /\ start = 0
    /\ idx = 0
    /\ tasks = [b \in 1..Len(batches) |-> IdleTask]
    /\ completion = <<>>
    /\ rng = 0
    /\ NewStreamer
    /\ fed = 0
    /\ NoDates

\* a second passes
Tick ==
    /\ nowts < MaxClock
    /\ nowts' = nowts + 1
    /\ UNCHANGED <<catalogVars, cohortVars, configVars, planVars, pc, runVars, rng, streamerVars,
                   fed, datesVars>>

NextClock ==
    \/ StartWindow
    \/ Gather
    \/ Handoff
    \/ FlushRemaining
    \/ Tick

SpecClock == InitClock /\ [][NextClock]_vars

(* The run on the same seed and inputs that reads FirstInstant from the     *)
(* clock every time and in which no write fails: window by window, the      *)
(* tasks run in submission order, then their rows are handed to the         *)
(* streamer in that order; flush_remaining at the end.                      *)
RECURSIVE RefHandoff(_, _, _, _)
RefHandoff(s, ts, b, last) ==
    IF b > last THEN s
    ELSE RefHandoff(add_rows_and_maybe_flush(s, ts[b].rows, chunk_size, 0), ts, b + 1, last)

RECURSIVE RefWindows(_, _)
RefWindows(s, st) ==
    IF st >= Len(batches) THEN flush_remaining(s, 0)
    ELSE LET last == Min(st + concurrent_prompts, Len(batches))
             r == RunLocally([b \in 1..Len(batches) |-> IdleTask], st + 1, last, s.rng,
                             FirstInstant)
         IN  RefWindows(RefHandoff([s EXCEPT !.rng = r.rng], r.tasks, st + 1, last),
                        st + concurrent_prompts)

RefRun ==
    RefWindows([buffer |-> <<>>, next_review_id |-> 1, review_files |-> <<>>,
                photo_files |-> <<>>, rng |-> 0, err |-> FALSE], 0)

(* C19 as stated: a completed run without the external service has written  *)
(* the chunk files, with the contents in every row field, that the run on   *)
(* the same seed and inputs at another wall-clock time writes.              *)
C19_SameOutputAtAnyTime ==
    pc = "done" =>
        /\ review_files = RefRun.review_files
        /\ photo_files = RefRun.photo_files

(***************************************************************************)
(* run() from its start to the packed batches (lines 365-422): population  *)
(* check, pick_cohorts, assign_for for every cohort user, flattening.      *)
(* The shuffle, the n drawn for a user and the sample of restaurants are   *)
(* any of the values the random source can give.                           *)
(***************************************************************************)
\* seq[a:b] of Python: a negative bound counts from the end, bounds are clipped
SliceBound(seq, x) == IF x < 0 THEN Max(0, Len(seq) + x) ELSE Min(x, Len(seq))
Slice(seq, a, b) == SubSeq(seq, SliceBound(seq, a) + 1, SliceBound(seq, b))

Shuffles(n) == {p \in [1..n -> 1..n] : \A i, j \in 1..n : i # j => p[i] # p[j]}

\* lines 248-253; perm is the outcome of random.shuffle
pick_cohorts(ids, perm) ==
    LET users == [i \in 1..Len(ids) |-> ids[perm[i]]]
    IN  <<Slice(users, 0, VIP_COUNT),
          Slice(users, VIP_COUNT, VIP_COUNT + LOYAL_COUNT),
          Slice(users, VIP_COUNT + LOYAL_COUNT, VIP_COUNT + LOYAL_COUNT + REGULAR_COUNT)>>

\* random.sample(ids, k): the sequences of k different elements of ids
Samples(ids, k) ==
    {[j \in 1..k |-> ids[f[j]]] : f \in {g \in [1..k -> 1..Len(ids)] :
                                            \A i, j \in 1..k : i # j => g[i] # g[j]}}

\* choose_restaurants_for_user that returns the first n ids, wrapping round
choose_restaurants_repeating(n, ids) ==
    IF ids = <<>> THEN {<<>>} ELSE {[j \in 1..n |-> ids[((j - 1) % Len(ids)) + 1]]}

\* lines 258-260: the possible results
choose_restaurants_for_user(n, ids) ==
    IF n >= Len(ids) THEN Samples(ids, Len(ids)) ELSE Samples(ids, n)

\* what gen_user_dates(n) returns when it returns: n dates, ascending (SpecDates)
UserDates(n) == [j \in 1..n |-> 2 * (j - 1)]

\* list(zip(rids, dates))
Zip(rids, ds) == [j \in 1..Min(Len(rids), Len(ds)) |-> <<rids[j], ds[j]>>]

\* a population check that lets every catalog pass
EnoughUsersUnchecked(ids) == TRUE

\* line 370, negated
EnoughUsers(ids) == ~(Len(ids) < VIP_COUNT + LOYAL_COUNT + REGULAR_COUNT)

\* the review-count ranges of the three cohorts: a VIP range is not below the loyal
\* range, nor that below the regular range
RangeChoices ==
    LET low == <<0, 1>>
        high == <<1, MaxVisits>>
    IN  {<<high, high, high>>, <<high, high, low>>, <<high, low, low>>, <<low, low, low>>}

InitPlan ==
    /\ \E n \in 0..MaxUsers : user_ids = [i \in 1..n |-> i]
    /\ \E n \in 0..MaxRestaurants : restaurant_ids = [i \in 1..n |-> i]
    /\ VIP_COUNT \in -1..MaxCohort
    /\ LOYAL_COUNT \in -1..MaxCohort
    /\ REGULAR_COUNT \in -1..MaxCohort
    /\ reviews_range \in RangeChoices
    /\ cohorts = <<<<>>, <<>>, <<>>>>
    /\ assigned = 0
    /\ plan_n = EmptyDict
    /\ user_plan = EmptyDict
    /\ all_slots = <<>>
    /\ batches = <<>>
    /\ pc = "start"
    /\ nowts = FirstInstant
    /\ target = 1
    /\ hard_max = 1
    /\ chunk_size = 1
    /\ concurrent_prompts = 1
    /\ use_openai = FALSE
    /\ start = 0
    /\ idx = 0
    /\ tasks = <<>>
    /\ completion = <<>>
    /\ rng = 0
    /\ NewStreamer
    /\ fed = 0
    /\ NoDates

planFrame == UNCHANGED <<clockVars, catalogVars, configVars, runVars, rng, streamerVars, fed,
                         datesVars>>

\* lines 370-371: raise SystemExit
Abort ==
    /\ pc = "start"
    /\ ~EnoughUsers(user_ids)
    /\ pc' = "aborted"
    /\ UNCHANGED <<cohortVars, planVars>>
    /\ planFrame

\* line 377
PickCohorts ==
    /\ pc = "start"
    /\ EnoughUsers(user_ids)
    /\ \E perm \in Shuffles(Len(user_ids)) : cohorts' = pick_cohorts(user_ids, perm)
    /\ pc' = "assign"
    /\ UNCHANGED <<assigned, plan_n, planVars>>
    /\ planFrame

\* the users in the order of the three loops of lines 388-395, each with its cohort
AssignOrder ==
    [i \in 1..Len(cohorts[1]) |-> <<cohorts[1][i], 1>>]
    \o [i \in 1..Len(cohorts[2]) |-> <<cohorts[2][i], 2>>]
    \o [i \in 1..Len(cohorts[3]) |-> <<cohorts[3][i], 3>>]

\* lines 382-386: one call of assign_for
AssignFor ==
    /\ pc = "assign"
    /\ assigned < Len(AssignOrder)
    /\ LET uid == AssignOrder[assigned + 1][1]
           range == reviews_range[AssignOrder[assigned + 1][2]]
       IN  \E n \in range[1]..range[2] :
             \E rids \in choose_restaurants_for_user(n, restaurant_ids) :
               /\ user_plan' = Put(user_plan, uid, Zip(rids, UserDates(n)))
               /\ plan_n' = Put(plan_n, uid, n)
    /\ assigned' = assigned + 1
    /\ UNCHANGED <<cohorts, pc, all_slots, batches>>
    /\ planFrame

\* lines 397-422
FlattenAndPack ==
    /\ pc = "assign"
    /\ assigned = Len(AssignOrder)
    /\ all_slots' = FlattenOf(cohorts, user_plan)
    /\ batches' = pack_slots_by_target(all_slots', target, hard_max)
    /\ pc' = "planned"
    /\ UNCHANGED <<cohortVars, user_plan>>
    /\ planFrame

NextPlan ==
    \/ Abort
    \/ PickCohorts
    \/ AssignFor
    \/ FlattenAndPack

SpecPlan == InitPlan /\ [][NextPlan]_vars

CohortMembers(c) == Range(cohorts[c])
AllCohortMembers == CohortMembers(1) \cup CohortMembers(2) \cup CohortMembers(3)
CohortsPicked == pc \in {"assign", "planned"}

(* C15 as stated: when the catalog has at least VIP_COUNT + LOYAL_COUNT +   *)
(* REGULAR_COUNT users, pick_cohorts returns for every shuffle three groups *)
(* of catalog users of exactly these sizes, no user twice in a group or in  *)
(* two groups; a user left over is in no group, gets no plan and appears in *)
(* no slot.                                                                 *)
C15_CohortPartition ==
    (/\ CohortsPicked
     /\ Len(user_ids) >= VIP_COUNT + LOYAL_COUNT + REGULAR_COUNT)
    => /\ Len(cohorts[1]) = VIP_COUNT
       /\ Len(cohorts[2]) = LOYAL_COUNT
       /\ Len(cohorts[3]) = REGULAR_COUNT
       /\ \A c \in 1..3 : Cardinality(CohortMembers(c)) = Len(cohorts[c])
       /\ \A c, d \in 1..3 : c # d => CohortMembers(c) \cap CohortMembers(d) = {}
       /\ AllCohortMembers \subseteq Range(user_ids)
       /\ \A u \in Range(user_ids) \ AllCohortMembers :
             /\ u \notin DOMAIN user_plan
             /\ \A k \in 1..Len(all_slots) : all_slots[k].user_id # u

(* C16: a run whose user catalog has fewer users than VIP_COUNT +           *)
(* LOYAL_COUNT + REGULAR_COUNT never gets past the population check: no     *)
(* cohort is picked, no plan or slot built, no call made to the external    *)
(* service and no chunk file written.                                       *)
C16_AbortBeforePlanning ==
    Len(user_ids) < VIP_COUNT + LOYAL_COUNT + REGULAR_COUNT
    => /\ pc \in {"start", "aborted"}
       /\ cohorts = <<<<>>, <<>>, <<>>>>
       /\ assigned = 0
       /\ user_plan = EmptyDict
       /\ all_slots = <<>>
       /\ batches = <<>>
       /\ tasks = <<>>
       /\ review_files = <<>>
       /\ photo_files = <<>>

\* aborted with users in the catalog, though too few
C16_Witness ==
    /\ pc = "aborted"
    /\ Len(user_ids) >= 2
    /\ VIP_COUNT = 1 /\ LOYAL_COUNT = 1 /\ REGULAR_COUNT = 1

\* n is inside the range of a cohort the user belongs to
DrawnInRange(u) ==
    \E c \in 1..3 :
        /\ u \in CohortMembers(c)
        /\ plan_n[u] >= reviews_range[c][1]
        /\ plan_n[u] <= reviews_range[c][2]

(* C20 as stated: for every restaurant catalog size, the visit plan of      *)
(* every cohort user has exactly as many (restaurant, date) pairs as the n  *)
(* drawn for the user, and n is inside the cohort's [min, max] range.       *)
C20_PlanSizeIsN ==
    pc = "planned" =>
        \A u \in AllCohortMembers :
            /\ u \in DOMAIN user_plan
            /\ Len(user_plan[u]) = plan_n[u]
            /\ DrawnInRange(u)

(* C20 amended: the visit plan of every cohort user has as many pairs as    *)
(* the n drawn for the user or as the catalog has restaurants, whichever    *)
(* is smaller (so exactly n when the catalog has at least n restaurants),   *)
(* and n is inside the cohort's [min, max] range.                           *)
C20_PlanSizeIsMinOfNAndCatalog ==
    pc = "planned" =>
        \A u \in AllCohortMembers :
            /\ u \in DOMAIN user_plan
            /\ Len(user_plan[u]) = Min(plan_n[u], Len(restaurant_ids))
            /\ DrawnInRange(u)

\* a user for whom 2 visits were drawn and who has 1: the catalog has 1 restaurant
C20_Witness ==
    /\ pc = "planned"
    /\ Len(restaurant_ids) = 1
    /\ \E u \in AllCohortMembers : plan_n[u] = 2 /\ Len(user_plan[u]) = 1

(***************************************************************************)
(* run() as a whole without the external service: the planning of          *)
(* SpecPlan, then the windows of Spec on the batches it packed.            *)
(***************************************************************************)
\* lines 423-427: the prompt tasks, the generator and the streamer are set up
BeginRun ==
    /\ pc = "planned"
    /\ tasks' = [b \in 1..Len(batches) |-> IdleTask]
    /\ pc' = "window"
    /\ UNCHANGED <<clockVars, catalogVars, cohortVars, configVars, planVars, start, idx,
                   completion, rng, streamerVars, fed, datesVars>>

NextWhole ==
    \/ Abort
    \/ PickCohorts
    \/ AssignFor
    \/ FlattenAndPack
    \/ BeginRun
    \/ StartWindow
    \/ Gather
    \/ Handoff
    \/ FlushRemaining

SpecWhole == InitPlan /\ [][NextWhole]_vars

(* C21 as stated: among the rows a run has written, no user id is paired    *)
(* with the same restaurant id more than once.                              *)
C21_NoRepeatedVisit ==
    \A i, j \in 1..Len(WrittenRows) :
        (/\ WrittenRows[i].user_id = WrittenRows[j].user_id
         /\ WrittenRows[i].restaurant_id = WrittenRows[j].restaurant_id) => i = j

\* the photo rows of the photo file p that belong to the review rv
PhotosOf(p, rv) == {i \in 1..Len(p.rows) : p.rows[i].review_id = rv.review_id}

\* the review file with the key of the photo file p
ReviewFileOf(p) == CHOOSE r \in Range(review_files) : r.key = p.key

(* C22: every photo row of the photo chunk keyed K references a review of   *)
(* the review chunk keyed K and carries that review's created and updated   *)
(* timestamps, and every review of the chunk has between 0 and 3 photo      *)
(* rows.                                                                    *)
C22_PhotosMatchReviews ==
    \A p \in Range(photo_files) :
        /\ \E r \in Range(review_files) : r.key = p.key
        /\ \A i \in 1..Len(p.rows) :
              \E rv \in Range(ReviewFileOf(p).rows) :
                  /\ rv.review_id = p.rows[i].review_id
                  /\ rv.created_at = p.rows[i].created_at
                  /\ rv.updated_at = p.rows[i].updated_at
        /\ \A rv \in Range(ReviewFileOf(p).rows) :
              /\ Cardinality(PhotosOf(p, rv)) >= REVIEW_PHOTO_MIN
              /\ Cardinality(PhotosOf(p, rv)) <= REVIEW_PHOTO_MAX

\* a chunk of two reviews stamped in different seconds whose photo chunk holds
\* a photo of the later review
C22_Witness ==
    \E p \in Range(photo_files) :
        /\ Len(ReviewFileOf(p).rows) = 2
        /\ ReviewFileOf(p).rows[1].created_at # ReviewFileOf(p).rows[2].created_at
        /\ \E i \in 1..Len(p.rows) : p.rows[i].created_at # FirstInstant

\* the cohorts (1 VIP, 2 loyal, 3 regular) that hold the user of a slot
CohortsOfSlot(s) == {c \in 1..3 : s.user_id \in Range(cohorts[c])}

\* the cohorts of the slots of a batch
CohortsOfBatch(batch) == UNION {CohortsOfSlot(batch[i]) : i \in 1..Len(batch)}

\* the cohorts that have a slot not emitted before the batch begins
PendingCohorts(batch) ==
    UNION {CohortsOfSlot(all_slots[k]) : k \in batch[1].slot_id..Len(all_slots)}

(* C23: while at least two cohorts still have slots that were not emitted   *)
(* before a batch begins, the batch (of two slots or more) does not consist *)
(* of slots of a single cohort.                                             *)
C23_NoSingleCohortBatch ==
    \A b \in 1..Len(batches) :
        (/\ Len(batches[b]) >= 2
         /\ Cardinality(PendingCohorts(batches[b])) >= 2)
            => Cardinality(CohortsOfBatch(batches[b])) >= 2

(***************************************************************************)
(* The flattener on its own: the state after lines 377-395 (cohorts picked *)
(* by pick_cohorts from the configured sizes, a plan per cohort user),     *)
(* then lines 397-422.                                                     *)
(***************************************************************************)
MaxFlatUsers == 3
MaxFlatVisits == 2

InitFlatten ==
    /\ \E n \in 0..MaxFlatUsers : user_ids = [i \in 1..n |-> i]
    /\ restaurant_ids = [i \in 1..MaxFlatVisits |-> i]
    /\ VIP_COUNT \in -1..MaxFlatUsers
    /\ LOYAL_COUNT \in -1..MaxFlatUsers
    /\ REGULAR_COUNT \in -1..MaxFlatUsers
    /\ EnoughUsers(user_ids)
    /\ reviews_range = <<<<0, MaxFlatVisits>>, <<0, MaxFlatVisits>>, <<0, MaxFlatVisits>>>>
    /\ \E perm \in Shuffles(Len(user_ids)) : cohorts = pick_cohorts(user_ids, perm)
    /\ assigned = Len(AssignOrder)
    /\ user_plan \in [AllCohortMembers -> {PlanOf(n) : n \in 0..MaxFlatVisits}]
    /\ plan_n = [u \in AllCohortMembers |-> Len(user_plan[u])]
    /\ all_slots = <<>>
    /\ batches = <<>>
    /\ pc = "assign"
    /\ nowts = FirstInstant
    /\ target = 1
    /\ hard_max = 1
    /\ chunk_size = 1
    /\ concurrent_prompts = 1
    /\ use_openai = FALSE
    /\ start = 0
    /\ idx = 0
    /\ tasks = <<>>
    /\ completion = <<>>
    /\ rng = 0
    /\ NewStreamer
    /\ fed = 0
    /\ NoDates

NextFlatten == FlattenAndPack

SpecFlatten == InitFlatten /\ [][NextFlatten]_vars

\* the bucket positions the flattener visits: <<i, c>> is user i of bucket c
Blocks == {x \in (1..MaxFlatUsers + 1) \X (1..3) : x[1] <= Len(cohorts[x[2]])}

\* block x is visited before block y
Before(x, y) == x[1] < y[1] \/ (x[1] = y[1] /\ x[2] < y[2])

BlockPlan(x) == user_plan[cohorts[x[2]][x[1]]]

RECURSIVE SlotCount(_)
SlotCount(xs) ==
    IF xs = {} THEN 0
    ELSE LET x == CHOOSE y \in xs : TRUE
         IN  Len(BlockPlan(x)) + SlotCount(xs \ {x})

\* the number of slots emitted before block x
Offset(x) == SlotCount({y \in Blocks : Before(y, x)})

\* ids 1, 2, 3, ... without gaps
SlotIdsAscending == \A k \in 1..Len(all_slots) : all_slots[k].slot_id = k

\* VIP[i], Loyal[i], Regular[i], VIP[i+1], ...: each block is the plan of its
\* user, in the plan's order
RoundRobinOrder ==
    /\ Len(all_slots) = SlotCount(Blocks)
    /\ \A x \in Blocks : \A j \in 1..Len(BlockPlan(x)) :
          /\ all_slots[Offset(x) + j].user_id = cohorts[x[2]][x[1]]
          /\ all_slots[Offset(x) + j].restaurant_id = BlockPlan(x)[j][1]
          /\ all_slots[Offset(x) + j].visited_at = BlockPlan(x)[j][2]

\* the slots of one user lie side by side
UserSlotsContiguous ==
    \A k, m \in 1..Len(all_slots) :
        (k < m /\ all_slots[k].user_id = all_slots[m].user_id) =>
            \A l \in k..m : all_slots[l].user_id = all_slots[k].user_id

(* C24: the flattener numbers the slots 1, 2, 3, ... without gaps, emits    *)
(* for each position i the slots of VIP[i], then of Loyal[i], then of       *)
(* Regular[i], skipping a cohort without an i-th user, and each user's      *)
(* slots are contiguous and in the order of the user's plan.                *)
C24_FlattenOrder ==
    pc = "planned" => SlotIdsAscending /\ RoundRobinOrder /\ UserSlotsContiguous

\* the batches whose call is in flight
InFlight == {b \in DOMAIN tasks : tasks[b].st = "called"}

\* the window of batch b: lines 459-460 cut prompt_tasks every CONCURRENT_PROMPTS
WindowOf(b) == (b - 1) \div concurrent_prompts

Started(b) == tasks[b].st # "idle"
Completed(b) == tasks[b].st \in {"done", "collected"}

(* C25: at every moment at most CONCURRENT_PROMPTS batches are in flight,   *)
(* and a batch of a later window is started only when every batch of the    *)
(* windows before has completed and its rows were handed to the writer.     *)
C25_BoundedWindows ==
    /\ Cardinality(InFlight) <= concurrent_prompts
    /\ \A a, b \in DOMAIN tasks :
          (WindowOf(a) < WindowOf(b) /\ Started(b)) => (Completed(a) /\ HandedOff(a))

\* the second window of a run with windows of two is in flight
C25_Witness ==
    /\ use_openai
    /\ concurrent_prompts = 2
    /\ pc = "gather"
    /\ start = 2
    /\ tasks[3].st = "called"

(* C26: the writer's buffer and the next-review-id counter change only      *)
(* while no call is in flight, after all results of the current window      *)
(* were collected (or after the last window); the step of a batch's own     *)
(* task leaves them alone.                                                   *)
C26_WriterSingleOwner ==
    [][(buffer' # buffer \/ next_review_id' # next_review_id) =>
          /\ InFlight = {}
          /\ pc \in {"handoff", "window"}
          /\ \A b \in Group : pc = "handoff" => Completed(b)]_vars

\* the second result list of a window of calls is about to be handed over, the
\* first one is in the buffer
C26_Witness ==
    /\ use_openai
    /\ pc = "handoff"
    /\ idx = 1
    /\ buffer # <<>>
    /\ InFlight = {}

\* the slots of the batches of the current window submitted before batch b
SlotsBefore(b) == Len(Concat([a \in 1..(b - start - 1) |-> batches[start + a]]))

\* the fallback content of batch b when the calls of the first window fail in
\* the order the batches were submitted
FallbackInSubmissionOrder(b) == FallbackAll(batches[b], FallbackDraws * SlotsBefore(b)).out

(* C27: the content produced for an in-flight batch does not depend on the  *)
(* order in which the other in-flight batches of the window complete: when  *)
(* every call of the first window has failed, each batch has the fallback   *)
(* content it has when the calls fail in submission order.                  *)
C27_ContentIndependentOfOrder ==
    (/\ use_openai
     /\ pc = "gather"
     /\ start = 0
     /\ \A b \in Group : tasks[b].st = "done" /\ tasks[b].failed)
        => \A b \in Group : tasks[b].results = FallbackInSubmissionOrder(b)

\* the hand-off of a window's last result list ends the window
WindowEnds == pc = "handoff" /\ pc' \notin {"handoff", "failed"}

(* C28: after each window of run() a cooldown pause is taken before the     *)
(* next window starts if and only if the external service is in use.        *)
C28_CooldownIffService ==
    [][WindowEnds => (pc' = "cooldown" <=> use_openai)]_vars

\* add_rows_and_maybe_flush has returned (or was not called yet) and no write
\* has raised: run() does not catch the exception of a write, so it calls the
\* streamer again only after a return
AddReturned == pc = "feeding" /\ write_errors = 0

BufferBelowChunk == Len(buffer) < chunk_size
BufferUnwritten == \A i \in 1..Len(buffer) : buffer[i] \notin Range(WrittenRows)

(* C29: after every return of add_rows_and_maybe_flush the buffer holds     *)
(* fewer than chunk_size rows and no row that was already written; so a     *)
(* call leaves at most chunk_size - 1 rows plus the rows it was given in    *)
(* the buffer, whatever the number of rows fed before.                      *)
C29_BufferBounded ==
    /\ AddReturned => (BufferBelowChunk /\ BufferUnwritten)
    /\ [][/\ AddReturned' => (BufferBelowChunk' /\ BufferUnwritten')
          /\ AddReturned => Len(buffer') <= chunk_size - 1 + (fed' - fed)]_vars

\* a call has returned with two chunks of two written and a row left over
C29_Witness ==
    /\ AddReturned
    /\ chunk_size = 2
    /\ fed = 5
    /\ Len(review_files) = 2
    /\ Len(buffer) = 1

====
